---- MODULE Spec2Model ----
(***************************************************************************)
(* Progress tracking and navigation core of the birthday page              *)
(* (src/script.js): class ProgressTracker, class PageManager, the          *)
(* localStorage item 'birthdayProgress' and the page reload that builds a  *)
(* new PageManager from it.                                                *)
(*                                                                         *)
(* JavaScript values are represented as follows.                           *)
(*   Set of strings       a TLA+ set (iteration order is not modelled;     *)
(*                        Array.from lists the members in a fixed order)   *)
(*   Map key -> value     a function over the whole key universe; a key    *)
(*                        the Map does not hold maps to an "absent" entry  *)
(*   value of a           [kind, members]: kind "Set" is a live Set,       *)
(*   per-section Map      kind "Object" is the plain object that           *)
(*                        JSON.parse returns for "{}"                      *)
(*   JSON text            the document it denotes: arrays are sequences,   *)
(*                        objects are functions to [type, items] values    *)
(***************************************************************************)
EXTENDS Integers, Sequences, FiniteSets, TLC

VARIABLES
    app,              \* "running", or "crashed" when new PageManager() threw
    progressTracker,  \* the five containers of pageManager.progressTracker
    currentPage,      \* pageManager.currentPage
    pageHistory,      \* pageManager.pageHistory
    backButton,       \* style.display of the .back-button element
    stored,           \* localStorage item 'birthdayProgress'
    wishesPage,       \* candles and counter of the wishes section, pending timers
    last,             \* observation of the most recent call
    calls             \* recorder of the calls made since construction

vars == <<app, progressTracker, currentPage, pageHistory, backButton, stored, wishesPage,
         last, calls>>

-----------------------------------------------------------------------------
(* Bounds of the model *)

MaxHistory == 3       \* navigateTo is not offered once pageHistory is this long
MaxTime == 2          \* values of new Date(): 1..MaxTime
MaxCalls == 5         \* the recorder keeps at most this many calls
MaxUnlocked == 2      \* AppSpec: an unlock call site fires while fewer are held
MaxTimers == 1        \* pending reset timers of the wishes section that are kept

Times == 1..MaxTime

-----------------------------------------------------------------------------
(* Identifiers *)

\* initializePages: the registered pages
Pages == {"landing", "menu", "gallery", "reasons", "wishes", "games"}

\* every section id the script passes to the tracker or to navigateTo
SectionIds == Pages \cup {"secret"}

\* getCompletionPercentage: validPages
validPages == {"gallery", "reasons", "wishes", "games"}

\* the template string `first-visit-${pageId}` of trackProgress
FirstVisitId(pageId) ==
    CASE pageId = "gallery" -> "first-visit-gallery"
      [] pageId = "reasons" -> "first-visit-reasons"
      [] pageId = "wishes" -> "first-visit-wishes"
      [] pageId = "games" -> "first-visit-games"
      [] OTHER -> "first-visit-other"

\* achievement ids the script passes to unlockAchievement or tests for
AchievementIds ==
    {"first-visit-gallery", "first-visit-reasons", "first-visit-wishes",
     "first-visit-games", "first-visit-other", "explorer", "candle-blower",
     "game-master", "secret-explorer", "memory-keeper", "heart-collector",
     "star-collector", "collector", "word-finder", "wish-master",
     "password-cracker", "heart-drawer", "layer-1-complete", "layer-2-complete",
     "layer-3-complete", "surprise-master"}

\* getAchievementData: the static table and its generic fallback
getAchievementData(achievementId) ==
    CASE achievementId = "first-visit-gallery" ->
            [title |-> "Memory Keeper", description |-> "Visited the photo gallery", icon |-> "camera"]
      [] achievementId = "first-visit-reasons" ->
            [title |-> "Heart Warmer", description |-> "Discovered why you're amazing", icon |-> "star"]
      [] achievementId = "first-visit-wishes" ->
            [title |-> "Wish Collector", description |-> "Read birthday wishes", icon |-> "hearts"]
      [] achievementId = "first-visit-games" ->
            [title |-> "Fun Seeker", description |-> "Started playing games", icon |-> "gamepad"]
      [] achievementId = "explorer" ->
            [title |-> "Complete Explorer", description |-> "Visited all sections!", icon |-> "trophy"]
      [] OTHER ->
            [title |-> "Achievement Unlocked", description |-> "You did something special!", icon |-> "sparkles"]

-----------------------------------------------------------------------------
(* Containers *)

NoEntry == [kind |-> "absent", members |-> {}]
NewSetEntry == [kind |-> "Set", members |-> {}]
PlainObject == [kind |-> "Object", members |-> {}]
EmptySectionMap == [s \in SectionIds |-> NoEntry]

NoRecord == [present |-> FALSE, id |-> "", title |-> "", description |-> "", icon |-> "", unlockedAt |-> 0]
EmptyAchievements == [a \in AchievementIds |-> NoRecord]

\* ProgressTracker constructor, lines 4-8
EmptyProgress ==
    [visitedPages |-> {},
     completedInteractions |-> EmptySectionMap,
     unlockedSecrets |-> {},
     achievements |-> EmptyAchievements,
     collectibles |-> EmptySectionMap]

MapHas(m, k) == m[k].kind # "absent"
AchHas(m, id) == m[id].present
AchKeys(m) == {id \in DOMAIN m : m[id].present}

-----------------------------------------------------------------------------
(* JSON *)

\* Array.from(aSet): the members as a sequence
RECURSIVE ArrayFrom(_)
ArrayFrom(S) ==
    IF S = {} THEN << >>
    ELSE LET x == CHOOSE y \in S : TRUE IN <<x>> \o ArrayFrom(S \ {x})

\* new Set(anArray)
NewSet(arr) == {arr[i] : i \in DOMAIN arr}

JsonAbsent == [type |-> "absent", items |-> << >>]
JsonEmptyObject == [type |-> "object", items |-> << >>]

\* JSON.stringify of one value of Object.fromEntries(map): a Set has no
\* enumerable own property and is written as {}; so is the plain object
JsonOfEntry(entry) ==
    CASE entry.kind = "absent" -> JsonAbsent
      [] entry.kind = "Set" -> JsonEmptyObject
      [] entry.kind = "Object" -> JsonEmptyObject

\* JSON.parse of one value of the object, as Object.entries hands it to new Map
EntryOfJson(j) ==
    CASE j.type = "absent" -> NoEntry
      [] j.type = "object" -> PlainObject
      [] j.type = "array" -> PlainObject

\* an achievement record as JSON text holds its five string properties
JsonOfRecord(rec) ==
    [id |-> rec.id, title |-> rec.title, description |-> rec.description,
     icon |-> rec.icon, unlockedAt |-> rec.unlockedAt]

\* the parsed record, as stored in the achievements Map under a.id
RecordOfJson(a) ==
    [present |-> TRUE, id |-> a.id, title |-> a.title, description |-> a.description,
     icon |-> a.icon, unlockedAt |-> a.unlockedAt]

\* saveProgress, lines 25-32: the document that is stringified
Serialize(pt, t) ==
    [visitedPages |-> ArrayFrom(pt.visitedPages),
     completedInteractions |-> [s \in SectionIds |-> JsonOfEntry(pt.completedInteractions[s])],
     unlockedSecrets |-> ArrayFrom(pt.unlockedSecrets),
     achievements |-> ArrayFrom({JsonOfRecord(pt.achievements[id]) : id \in AchKeys(pt.achievements)}),
     collectibles |-> [s \in SectionIds |-> JsonOfEntry(pt.collectibles[s])],
     lastVisit |-> t]

\* loadProgress, lines 16-20: the containers rebuilt from the parsed document
Deserialize(doc) ==
    [visitedPages |-> NewSet(doc.visitedPages),
     completedInteractions |-> [s \in SectionIds |-> EntryOfJson(doc.completedInteractions[s])],
     unlockedSecrets |-> NewSet(doc.unlockedSecrets),
     achievements |->
        [id \in AchievementIds |->
            IF \E i \in DOMAIN doc.achievements : doc.achievements[i].id = id
            THEN RecordOfJson(doc.achievements[CHOOSE i \in DOMAIN doc.achievements :
                                      /\ doc.achievements[i].id = id
                                      /\ \A j \in DOMAIN doc.achievements :
                                            doc.achievements[j].id = id => j <= i])
            ELSE NoRecord],
     collectibles |-> [s \in SectionIds |-> EntryOfJson(doc.collectibles[s])]]

EmptyDoc == Serialize(EmptyProgress, 0)

\* localStorage.getItem: null, a text JSON.parse rejects, or a saved document
StoredAbsent == [kind |-> "absent", doc |-> EmptyDoc]
StoredUnparsable == [kind |-> "unparsable", doc |-> EmptyDoc]
StoredJson(doc) == [kind |-> "json", doc |-> doc]

-----------------------------------------------------------------------------
(* ProgressTracker.  Each method is an operator from the tracker pt, the    *)
(* stored item st and the call's inputs to the outcome of the call:         *)
(*   pt, st    the tracker and the stored item after the call               *)
(*   ret       "true", "false", "undefined", or "none" when the call threw  *)
(*   error     "none" or the name of the exception that left the call       *)
(*   saves     number of calls of localStorage.setItem                      *)
(*   notified  achievement ids handed to showAchievementNotification        *)
(* ok says whether localStorage.setItem accepts the write (it throws        *)
(* QuotaExceededError otherwise); t is the value new Date() has during the  *)
(* handler, which runs to completion without yielding.                      *)

\* saveProgress, lines 24-34: the stored item after the call
saveProgress(pt, st, ok, t) ==
    IF ok THEN StoredJson(Serialize(pt, t)) ELSE st

\* a method that changed the tracker to pt1 and then calls saveProgress:
\* when setItem throws, the exception leaves the method and what follows the
\* save in it (the return, the notification) does not happen
ThenSave(pt1, st, ok, t, ret, notified) ==
    [pt |-> pt1, st |-> saveProgress(pt1, st, ok, t),
     ret |-> IF ok THEN ret ELSE "none",
     error |-> IF ok THEN "none" ELSE "QuotaExceededError",
     saves |-> 1, refused |-> ~ok,
     notified |-> IF ok THEN notified ELSE {}]

\* a method that ends without a save
NoSave(pt, st, ret, error) ==
    [pt |-> pt, st |-> st, ret |-> ret, error |-> error,
     saves |-> 0, refused |-> FALSE, notified |-> {}]

\* loadProgress that does not restore the visited pages (line 16 left out)
loadProgressWithoutVisits(st) ==
    CASE st.kind = "absent" -> [pt |-> EmptyProgress, error |-> "none"]
      [] st.kind = "unparsable" -> [pt |-> EmptyProgress, error |-> "SyntaxError"]
      [] st.kind = "json" -> [pt |-> [Deserialize(st.doc) EXCEPT !.visitedPages = {}],
                              error |-> "none"]

\* loadProgress as run by the constructor, lines 3-22
loadProgress(st) ==
    CASE st.kind = "absent" -> [pt |-> EmptyProgress, error |-> "none"]
      [] st.kind = "unparsable" -> [pt |-> EmptyProgress, error |-> "SyntaxError"]
      [] st.kind = "json" -> [pt |-> Deserialize(st.doc), error |-> "none"]

\* markPageVisited without the membership test of line 37
markPageVisitedUntested(pt, st, pageId, ok, t) ==
    ThenSave([pt EXCEPT !.visitedPages = @ \cup {pageId}], st, ok, t, "true", {})

\* markPageVisited that takes a visited page out again
markPageVisitedToggle(pt, st, pageId, ok, t) ==
    IF pageId \notin pt.visitedPages
    THEN ThenSave([pt EXCEPT !.visitedPages = @ \cup {pageId}], st, ok, t, "true", {})
    ELSE ThenSave([pt EXCEPT !.visitedPages = @ \ {pageId}], st, ok, t, "false", {})

\* markPageVisited, lines 36-43
markPageVisited(pt, st, pageId, ok, t) ==
    IF pageId \notin pt.visitedPages
    THEN ThenSave([pt EXCEPT !.visitedPages = @ \cup {pageId}], st, ok, t, "true", {})
    ELSE NoSave(pt, st, "false", "none")

\* lines 46-57 and 69-80 on one per-section Map m: the Map after the call and
\* how the call ends ("added", "present", or "TypeError" when the value under
\* pageId is a plain object, which has no method has)
AddToSection(m, pageId, memberId) ==
    LET m1 == IF ~MapHas(m, pageId) THEN [m EXCEPT ![pageId] = NewSetEntry] ELSE m
        entry == m1[pageId]
    IN  IF entry.kind = "Object"
        THEN [map |-> m1, how |-> "TypeError"]
        ELSE IF memberId \notin entry.members
             THEN [map |-> [m1 EXCEPT ![pageId].members = @ \cup {memberId}], how |-> "added"]
             ELSE [map |-> m1, how |-> "present"]

\* the tail shared by markInteractionComplete and addCollectible
SectionOutcome(pt1, pt, st, how, ok, t) ==
    CASE how = "TypeError" -> NoSave(pt, st, "none", "TypeError")
      [] how = "added" -> ThenSave(pt1, st, ok, t, "true", {})
      [] how = "present" -> NoSave(pt1, st, "false", "none")

\* markInteractionComplete, lines 45-57
markInteractionComplete(pt, st, pageId, interactionId, ok, t) ==
    LET a == AddToSection(pt.completedInteractions, pageId, interactionId)
    IN  SectionOutcome([pt EXCEPT !.completedInteractions = a.map], pt, st, a.how, ok, t)

\* unlockSecret, lines 59-66
unlockSecret(pt, st, secretId, ok, t) ==
    IF secretId \notin pt.unlockedSecrets
    THEN ThenSave([pt EXCEPT !.unlockedSecrets = @ \cup {secretId}], st, ok, t, "true", {})
    ELSE NoSave(pt, st, "false", "none")

\* addCollectible as an unadapted copy of markInteractionComplete: it keeps the
\* collectible in completedInteractions
addCollectibleCopied(pt, st, pageId, collectibleId, ok, t) ==
    LET a == AddToSection(pt.completedInteractions, pageId, collectibleId)
    IN  SectionOutcome([pt EXCEPT !.completedInteractions = a.map], pt, st, a.how, ok, t)

\* addCollectible, lines 68-80
addCollectible(pt, st, pageId, collectibleId, ok, t) ==
    LET a == AddToSection(pt.collectibles, pageId, collectibleId)
    IN  SectionOutcome([pt EXCEPT !.collectibles = a.map], pt, st, a.how, ok, t)

\* Math.round of the quotient num/den of two non-negative integers: the
\* nearest integer, a half rounded up
MathRound(num, den) == (2 * num + den) \div (2 * den)

\* getCompletionPercentage, line 83
totalPages == 4

\* getCompletionPercentage that counts every visited page (no filter)
getCompletionPercentageUnfiltered(pt) ==
    LET visitedCount == Len(ArrayFrom(pt.visitedPages))
    IN  MathRound(visitedCount * 100, totalPages)

\* getCompletionPercentage, lines 82-87
getCompletionPercentage(pt) ==
    LET IsValid(page) == page \in validPages
        visitedCount == Len(SelectSeq(ArrayFrom(pt.visitedPages), IsValid))
    IN  MathRound(visitedCount * 100, totalPages)

\* isPageCompleted, lines 91-98: completionCriteria[pageId] || 1
required(pageId) ==
    CASE pageId = "gallery" -> 2
      [] pageId = "reasons" -> 3
      [] pageId = "wishes" -> 1
      [] pageId = "games" -> 1
      [] OTHER -> 1

\* isPageCompleted that takes one interaction as enough for every page
isPageCompletedAny(pt, pageId) ==
    LET pageInteractions == pt.completedInteractions[pageId]
    IN  CASE pageInteractions.kind = "absent" -> "undefined"
          [] pageInteractions.kind = "Object" -> "false"
          [] pageInteractions.kind = "Set" ->
                IF Cardinality(pageInteractions.members) >= 1 THEN "true" ELSE "false"

\* isPageCompleted, lines 89-101: pageInteractions && pageInteractions.size >=
\* required.  Map.get gives undefined for a page without an entry, and && then
\* yields that undefined; a plain object has no size, and undefined >= n is
\* false
isPageCompleted(pt, pageId) ==
    LET pageInteractions == pt.completedInteractions[pageId]
    IN  CASE pageInteractions.kind = "absent" -> "undefined"
          [] pageInteractions.kind = "Object" -> "false"
          [] pageInteractions.kind = "Set" ->
                IF Cardinality(pageInteractions.members) >= required(pageId)
                THEN "true" ELSE "false"

-----------------------------------------------------------------------------
(* PageManager *)

\* unlockAchievement without the test of line 245
unlockAchievementUntested(pt, st, achievementId, ok, t) ==
    LET achievementData == getAchievementData(achievementId)
    IN  ThenSave([pt EXCEPT !.achievements[achievementId] =
                        [present |-> TRUE, id |-> achievementId,
                         title |-> achievementData.title,
                         description |-> achievementData.description,
                         icon |-> achievementData.icon,
                         unlockedAt |-> t]],
                 st, ok, t, "undefined", {achievementId})

\* unlockAchievement, lines 243-256: no return statement; the record is shown
\* by showAchievementNotification after the save
unlockAchievement(pt, st, achievementId, ok, t) ==
    LET achievementData == getAchievementData(achievementId)
    IN  IF ~AchHas(pt.achievements, achievementId)
        THEN ThenSave([pt EXCEPT !.achievements[achievementId] =
                            [present |-> TRUE, id |-> achievementId,
                             title |-> achievementData.title,
                             description |-> achievementData.description,
                             icon |-> achievementData.icon,
                             unlockedAt |-> t]],
                      st, ok, t, "undefined", {achievementId})
        ELSE NoSave(pt, st, "undefined", "none")

\* trackProgress that unlocks the first-visit achievement before it marks the
\* page visited
trackProgressUnlockFirst(pt, st, pageId, okVisit, okAch, t) ==
    IF pageId \notin pt.visitedPages /\ pageId # "landing" /\ pageId # "menu"
    THEN LET a == unlockAchievement(pt, st, FirstVisitId(pageId), okAch, t)
         IN IF a.error # "none" THEN a
            ELSE LET v == markPageVisited(a.pt, a.st, pageId, okVisit, t)
                 IN [v EXCEPT !.saves = a.saves + v.saves,
                              !.notified = a.notified,
                              !.ret = IF v.error = "none" THEN "undefined" ELSE "none"]
    ELSE LET v == markPageVisited(pt, st, pageId, okVisit, t)
         IN IF v.error # "none" THEN v ELSE [v EXCEPT !.ret = "undefined"]

\* trackProgress without the exclusion of landing and menu of line 189
trackProgressEveryPage(pt, st, pageId, okVisit, okAch, t) ==
    LET v == markPageVisited(pt, st, pageId, okVisit, t)
    IN  IF v.error # "none" THEN v
        ELSE IF v.ret = "true"
             THEN LET a == unlockAchievement(v.pt, v.st, FirstVisitId(pageId), okAch, t)
                  IN [a EXCEPT !.saves = v.saves + a.saves]
             ELSE [v EXCEPT !.ret = "undefined"]

\* trackProgress, lines 187-193 (updateMenuProgress only redraws the menu cards)
trackProgress(pt, st, pageId, okVisit, okAch, t) ==
    LET v == markPageVisited(pt, st, pageId, okVisit, t)
    IN  IF v.error # "none" THEN v
        ELSE IF v.ret = "true" /\ pageId # "landing" /\ pageId # "menu"
             THEN LET a == unlockAchievement(v.pt, v.st, FirstVisitId(pageId), okAch, t)
                  IN [a EXCEPT !.saves = v.saves + a.saves]
             ELSE [v EXCEPT !.ret = "undefined"]

\* updateBackButton, lines 232-241: the display style it sets
updateBackButton(cur, hist) ==
    IF Len(hist) > 0 /\ cur # "landing" THEN "flex" ELSE "none"

NoTransition == [from |-> "", to |-> "", kind |-> ""]

\* navigateTo that assigns currentPage before it looks up the page elements
navigateToAssignFirst(cur, hist, bb, pt, st, pageId, transitionType, okVisit, okAch, t) ==
    IF pageId \notin Pages
    THEN [currentPage |-> cur, pageHistory |-> hist, backButton |-> bb,
          pt |-> pt, st |-> st, ret |-> "undefined", error |-> "none", saves |-> 0,
          refused |-> FALSE, notified |-> {}, transition |-> NoTransition, logged |-> TRUE]
    ELSE LET hist1 == IF cur # pageId THEN Append(hist, cur) ELSE hist
             tp == trackProgress(pt, st, pageId, okVisit, okAch, t)
         IN [currentPage |-> pageId, pageHistory |-> hist1,
             backButton |-> IF tp.error = "none" THEN updateBackButton(pageId, hist1) ELSE bb,
             pt |-> tp.pt, st |-> tp.st,
             ret |-> IF tp.error = "none" THEN "undefined" ELSE "none",
             error |-> tp.error, saves |-> tp.saves, refused |-> tp.refused,
             notified |-> tp.notified,
             transition |-> [from |-> pageId, to |-> pageId, kind |-> transitionType],
             logged |-> FALSE]

\* navigateTo without the test of line 132
navigateToUnregistered(cur, hist, bb, pt, st, pageId, transitionType, okVisit, okAch, t) ==
    LET hist1 == IF cur # pageId THEN Append(hist, cur) ELSE hist
        tp == trackProgress(pt, st, pageId, okVisit, okAch, t)
    IN [currentPage |-> pageId, pageHistory |-> hist1,
        backButton |-> IF tp.error = "none" THEN updateBackButton(pageId, hist1) ELSE bb,
        pt |-> tp.pt, st |-> tp.st,
        ret |-> IF tp.error = "none" THEN "undefined" ELSE "none",
        error |-> tp.error, saves |-> tp.saves, refused |-> tp.refused,
        notified |-> tp.notified,
        transition |-> [from |-> cur, to |-> pageId, kind |-> transitionType],
        logged |-> FALSE]

\* navigateTo without the test of line 138
navigateToAlwaysPush(cur, hist, bb, pt, st, pageId, transitionType, okVisit, okAch, t) ==
    IF pageId \notin Pages
    THEN [currentPage |-> cur, pageHistory |-> hist, backButton |-> bb,
          pt |-> pt, st |-> st, ret |-> "undefined", error |-> "none", saves |-> 0,
          refused |-> FALSE, notified |-> {}, transition |-> NoTransition, logged |-> TRUE]
    ELSE LET hist1 == Append(hist, cur)
             tp == trackProgress(pt, st, pageId, okVisit, okAch, t)
         IN [currentPage |-> pageId, pageHistory |-> hist1,
             backButton |-> IF tp.error = "none" THEN updateBackButton(pageId, hist1) ELSE bb,
             pt |-> tp.pt, st |-> tp.st,
             ret |-> IF tp.error = "none" THEN "undefined" ELSE "none",
             error |-> tp.error, saves |-> tp.saves, refused |-> tp.refused,
             notified |-> tp.notified,
             transition |-> [from |-> cur, to |-> pageId, kind |-> transitionType],
             logged |-> FALSE]

\* navigateTo, lines 131-152, as reached through the wrappers of lines 691-694
\* and 2201-2208, which return nothing either.  transition is the call of
\* executeTransition; logged is the console.error of line 133.  The markup of
\* the page is not part of the script: every registered page is taken to have
\* its [data-page] element and the page to have its .back-button.
navigateTo(cur, hist, bb, pt, st, pageId, transitionType, okVisit, okAch, t) ==
    IF pageId \notin Pages
    THEN [currentPage |-> cur, pageHistory |-> hist, backButton |-> bb,
          pt |-> pt, st |-> st, ret |-> "undefined", error |-> "none", saves |-> 0,
          refused |-> FALSE, notified |-> {}, transition |-> NoTransition, logged |-> TRUE]
    ELSE LET hist1 == IF cur # pageId THEN Append(hist, cur) ELSE hist
             tp == trackProgress(pt, st, pageId, okVisit, okAch, t)
         IN [currentPage |-> pageId, pageHistory |-> hist1,
             backButton |-> IF tp.error = "none" THEN updateBackButton(pageId, hist1) ELSE bb,
             pt |-> tp.pt, st |-> tp.st,
             ret |-> IF tp.error = "none" THEN "undefined" ELSE "none",
             error |-> tp.error, saves |-> tp.saves, refused |-> tp.refused,
             notified |-> tp.notified,
             transition |-> [from |-> cur, to |-> pageId, kind |-> transitionType],
             logged |-> FALSE]

\* goBack that does not let navigateTo push the page that is left
goBackPopOnly(cur, hist, bb, pt, st, okVisit, okAch, t) ==
    IF Len(hist) > 0
    THEN LET previousPage == hist[Len(hist)]
             popped == SubSeq(hist, 1, Len(hist) - 1)
             r == navigateTo(cur, popped, bb, pt, st,
                             previousPage, "slideBack", okVisit, okAch, t)
         IN [r EXCEPT !.pageHistory = popped,
                      !.backButton = IF r.error = "none"
                                     THEN updateBackButton(previousPage, popped) ELSE bb]
    ELSE [currentPage |-> cur, pageHistory |-> hist, backButton |-> bb,
          pt |-> pt, st |-> st, ret |-> "undefined", error |-> "none", saves |-> 0,
          refused |-> FALSE, notified |-> {}, transition |-> NoTransition, logged |-> FALSE]

\* goBack that navigates to landing when the history is empty
goBackToLanding(cur, hist, bb, pt, st, okVisit, okAch, t) ==
    IF Len(hist) > 0
    THEN LET previousPage == hist[Len(hist)]
         IN navigateTo(cur, SubSeq(hist, 1, Len(hist) - 1), bb, pt, st,
                       previousPage, "slideBack", okVisit, okAch, t)
    ELSE navigateTo(cur, hist, bb, pt, st, "landing", "slideBack", okVisit, okAch, t)

\* goBack that takes the oldest entry of the history (shift for pop)
goBackOldest(cur, hist, bb, pt, st, okVisit, okAch, t) ==
    IF Len(hist) > 0
    THEN LET previousPage == hist[1]
         IN navigateTo(cur, SubSeq(hist, 2, Len(hist)), bb, pt, st,
                       previousPage, "slideBack", okVisit, okAch, t)
    ELSE [currentPage |-> cur, pageHistory |-> hist, backButton |-> bb,
          pt |-> pt, st |-> st, ret |-> "undefined", error |-> "none", saves |-> 0,
          refused |-> FALSE, notified |-> {}, transition |-> NoTransition, logged |-> FALSE]

\* goBack, lines 154-159
goBack(cur, hist, bb, pt, st, okVisit, okAch, t) ==
    IF Len(hist) > 0
    THEN LET previousPage == hist[Len(hist)]
         IN navigateTo(cur, SubSeq(hist, 1, Len(hist) - 1), bb, pt, st,
                       previousPage, "slideBack", okVisit, okAch, t)
    ELSE [currentPage |-> cur, pageHistory |-> hist, backButton |-> bb,
          pt |-> pt, st |-> st, ret |-> "undefined", error |-> "none", saves |-> 0,
          refused |-> FALSE, notified |-> {}, transition |-> NoTransition, logged |-> FALSE]

\* the wishes section after a load: no candle has the class 'blown', the
\* counter of line 1697 is 0 and no timer is pending
FreshWishes == [blown |-> {}, candlesBlown |-> 0, resetTimers |-> 0, unlockTimers |-> 0]

\* the candles of the cake, data-candle="1" to "5"
Candles == 1..5

\* the template string `candle-${candleNumber}` of line 1713
CandleId(n) ==
    CASE n = 1 -> "candle-1"
      [] n = 2 -> "candle-2"
      [] n = 3 -> "candle-3"
      [] n = 4 -> "candle-4"
      [] n = 5 -> "candle-5"

\* the navigateTo wrapper of lines 691-720 after originalNavigateTo returned
\* for 'wishes': it sets the timer of lines 713-718 (the timer of line 697
\* and the one of line 2205 only redraw)
wishesEntered(w) ==
    [w EXCEPT !.resetTimers = IF @ < MaxTimers THEN @ + 1 ELSE @]

\* blowCandle, lines 1701-1725: w is the wishes section, r the outcome of the
\* tracker call; an exception of markInteractionComplete leaves the handler
\* before the test of line 1716
blowCandle(w, pt, st, candleNumber, ok, t) ==
    IF candleNumber \notin w.blown
    THEN LET w1 == [w EXCEPT !.blown = @ \cup {candleNumber},
                             !.candlesBlown = @ + 1]
             m == markInteractionComplete(pt, st, "wishes", CandleId(candleNumber), ok, t)
         IN  IF m.error # "none"
             THEN [w |-> w1, r |-> m]
             ELSE [w |-> IF w1.candlesBlown >= 5
                         THEN [w1 EXCEPT !.unlockTimers = @ + 1] ELSE w1,
                   r |-> [m EXCEPT !.ret = "undefined"]]
    ELSE [w |-> w, r |-> NoSave(pt, st, "undefined", "none")]

\* the keydown listener of setupKonami once the buffer holds the code, lines
\* 463-467: unlockAchievement('secret-explorer'), then navigateTo('secret');
\* an exception of the first call leaves the listener
konami(cur, hist, bb, pt, st, ok, t) ==
    LET a == unlockAchievement(pt, st, "secret-explorer", ok, t)
    IN  IF a.error # "none"
        THEN [currentPage |-> cur, pageHistory |-> hist, backButton |-> bb,
              pt |-> a.pt, st |-> a.st, ret |-> "none", error |-> a.error, saves |-> a.saves,
              refused |-> a.refused, notified |-> a.notified,
              transition |-> NoTransition, logged |-> FALSE]
        ELSE LET n == navigateTo(cur, hist, bb, a.pt, a.st, "secret", "slide", TRUE, TRUE, t)
             IN [n EXCEPT !.saves = a.saves + n.saves,
                          !.notified = a.notified \cup n.notified]

\* ensureDerivedAchievements with || for && in the test of line 2418
ensureDerivedAchievementsAny(pt, st, ok, t) ==
    LET ach == pt.achievements
        hasHearts == AchHas(ach, "heart-collector")
        hasTokens == AchHas(ach, "memory-keeper")
        hasStars == AchHas(ach, "star-collector")
    IN  IF ~AchHas(ach, "collector") /\ (hasHearts \/ hasTokens \/ hasStars)
        THEN unlockAchievement(pt, st, "collector", ok, t)
        ELSE NoSave(pt, st, "undefined", "none")

\* ensureDerivedAchievements, lines 2411-2421
ensureDerivedAchievements(pt, st, ok, t) ==
    LET ach == pt.achievements
        hasHearts == AchHas(ach, "heart-collector")
        hasTokens == AchHas(ach, "memory-keeper")
        hasStars == AchHas(ach, "star-collector")
    IN  IF ~AchHas(ach, "collector") /\ hasHearts /\ hasTokens /\ hasStars
        THEN unlockAchievement(pt, st, "collector", ok, t)
        ELSE NoSave(pt, st, "undefined", "none")

-----------------------------------------------------------------------------
(* Observation of a call and the recorder of calls.  value is the number a  *)
(* call returned (ret = "number"), and 0 otherwise.                         *)

Obs(op, arg, arg2, r, transition, logged) ==
    [op |-> op, arg |-> arg, arg2 |-> arg2, ret |-> r.ret, error |-> r.error,
     saves |-> r.saves, refused |-> r.refused, notified |-> r.notified,
     transition |-> transition, logged |-> logged, value |-> 0]

NoCall ==
    [op |-> "constructor", arg |-> "absent", arg2 |-> "", ret |-> "undefined", error |-> "none",
     saves |-> 0, refused |-> FALSE, notified |-> {}, transition |-> NoTransition,
     logged |-> FALSE, value |-> 0]

\* the recorder appends <<op, arg>> while it is on and has room
Record(c, op, arg) ==
    IF c.on /\ Len(c.seq) < MaxCalls
    THEN [c EXCEPT !.seq = Append(@, <<op, arg>>)]
    ELSE [on |-> FALSE, seq |-> << >>]

-----------------------------------------------------------------------------
(* Initial states: the page has been loaded with nothing stored, line 403 *)

InitProgram ==
    /\ app = "running"
    /\ progressTracker = EmptyProgress
    /\ currentPage = "landing"
    /\ pageHistory = << >>
    /\ backButton = "initial"
    /\ stored = StoredAbsent
    /\ wishesPage = FreshWishes
    /\ last = NoCall

Init == InitProgram /\ calls = [on |-> FALSE, seq |-> << >>]

InitRecording == InitProgram /\ calls = [on |-> TRUE, seq |-> << >>]

\* the record of id as an earlier page load wrote it to the snapshot
StoredRecord(id) ==
    LET achievementData == getAchievementData(id)
    IN  [id |-> id, title |-> achievementData.title,
         description |-> achievementData.description,
         icon |-> achievementData.icon, unlockedAt |-> 1]

\* the page has been loaded with a snapshot under the key that holds the
\* achievements ids and nothing else
InitLoaded(ids) ==
    LET doc == [EmptyDoc EXCEPT !.achievements = ArrayFrom({StoredRecord(id) : id \in ids})]
    IN  /\ app = "running"
        /\ progressTracker = loadProgress(StoredJson(doc)).pt
        /\ currentPage = "landing"
        /\ pageHistory = << >>
        /\ backButton = "initial"
        /\ stored = StoredJson(doc)
        /\ wishesPage = FreshWishes
        /\ last = [NoCall EXCEPT !.arg = "json"]
        /\ calls = [on |-> FALSE, seq |-> << >>]

-----------------------------------------------------------------------------
(* Actions: one per call the page makes *)

TrackerCall(op, arg, arg2, r) ==
    /\ progressTracker' = r.pt
    /\ stored' = r.st
    /\ last' = Obs(op, arg, arg2, r, NoTransition, FALSE)
    /\ calls' = Record(calls, op, arg)
    /\ UNCHANGED <<app, currentPage, pageHistory, backButton, wishesPage>>

MarkPageVisited(pageId, ok, t) ==
    /\ app = "running"
    /\ TrackerCall("markPageVisited", pageId, "",
                   markPageVisited(progressTracker, stored, pageId, ok, t))

MarkInteractionComplete(pageId, interactionId, ok, t) ==
    /\ app = "running"
    /\ TrackerCall("markInteractionComplete", pageId, interactionId,
                   markInteractionComplete(progressTracker, stored, pageId, interactionId, ok, t))

UnlockSecret(secretId, ok, t) ==
    /\ app = "running"
    /\ TrackerCall("unlockSecret", secretId, "",
                   unlockSecret(progressTracker, stored, secretId, ok, t))

AddCollectible(pageId, collectibleId, ok, t) ==
    /\ app = "running"
    /\ TrackerCall("addCollectible", pageId, collectibleId,
                   addCollectible(progressTracker, stored, pageId, collectibleId, ok, t))

UnlockAchievement(achievementId, ok, t) ==
    /\ app = "running"
    /\ TrackerCall("unlockAchievement", achievementId, "",
                   unlockAchievement(progressTracker, stored, achievementId, ok, t))

EnsureDerivedAchievements(ok, t) ==
    /\ app = "running"
    /\ TrackerCall("ensureDerivedAchievements", "", "",
                   ensureDerivedAchievements(progressTracker, stored, ok, t))

\* a call of a method that has no assignment and no write
Query(op, arg, ret, value) ==
    /\ last' = [NoCall EXCEPT !.op = op, !.arg = arg, !.ret = ret, !.value = value]
    /\ calls' = Record(calls, op, arg)
    /\ UNCHANGED <<app, progressTracker, currentPage, pageHistory, backButton, stored,
                   wishesPage>>

GetCompletionPercentage ==
    /\ app = "running"
    /\ Query("getCompletionPercentage", "", "number", getCompletionPercentage(progressTracker))

IsPageCompleted(pageId) ==
    /\ app = "running"
    /\ Query("isPageCompleted", pageId, isPageCompleted(progressTracker, pageId), 0)

PageCall(op, arg, arg2, r) ==
    /\ currentPage' = r.currentPage
    /\ pageHistory' = r.pageHistory
    /\ backButton' = r.backButton
    /\ progressTracker' = r.pt
    /\ stored' = r.st
    /\ wishesPage' = IF r.transition.to = "wishes" /\ r.error = "none"
                     THEN wishesEntered(wishesPage) ELSE wishesPage
    /\ last' = Obs(op, arg, arg2, r, r.transition, r.logged)
    /\ calls' = Record(calls, op, arg)
    /\ UNCHANGED app

NavigateTo(pageId, transitionType, okVisit, okAch, t) ==
    /\ app = "running"
    /\ \/ pageId \notin Pages
       \/ pageId = currentPage
       \/ Len(pageHistory) < MaxHistory
    /\ PageCall("navigateTo", pageId, transitionType,
                navigateTo(currentPage, pageHistory, backButton, progressTracker, stored,
                           pageId, transitionType, okVisit, okAch, t))

GoBack(okVisit, okAch, t) ==
    /\ app = "running"
    /\ PageCall("goBack", "", "",
                goBack(currentPage, pageHistory, backButton, progressTracker, stored,
                       okVisit, okAch, t))

\* a click on candle candleNumber of the wishes section
BlowCandle(candleNumber, ok, t) ==
    LET b == blowCandle(wishesPage, progressTracker, stored, candleNumber, ok, t)
    IN  /\ app = "running"
        /\ currentPage = "wishes"
        /\ wishesPage' = b.w
        /\ progressTracker' = b.r.pt
        /\ stored' = b.r.st
        /\ last' = Obs("blowCandle", CandleId(candleNumber), "", b.r, NoTransition, FALSE)
        /\ calls' = Record(calls, "blowCandle", CandleId(candleNumber))
        /\ UNCHANGED <<app, currentPage, pageHistory, backButton>>

\* the timer callback of lines 714-718, 300 ms after wishes was entered
ResetCounters ==
    /\ app = "running"
    /\ wishesPage.resetTimers > 0
    /\ wishesPage' = [wishesPage EXCEPT !.candlesBlown = 0, !.resetTimers = @ - 1]
    /\ UNCHANGED <<app, progressTracker, currentPage, pageHistory, backButton, stored,
                   last, calls>>

\* the timer callback of lines 1717-1720, 500 ms after the counter reached 5
CandleBlowerTimeout(ok, t) ==
    LET r == unlockAchievement(progressTracker, stored, "candle-blower", ok, t)
    IN  /\ app = "running"
        /\ wishesPage.unlockTimers > 0
        /\ wishesPage' = [wishesPage EXCEPT !.unlockTimers = @ - 1]
        /\ progressTracker' = r.pt
        /\ stored' = r.st
        /\ last' = Obs("unlockAchievement", "candle-blower", "", r, NoTransition, FALSE)
        /\ calls' = Record(calls, "unlockAchievement", "candle-blower")
        /\ UNCHANGED <<app, currentPage, pageHistory, backButton>>

Konami(ok, t) ==
    /\ app = "running"
    /\ PageCall("konami", "", "",
                konami(currentPage, pageHistory, backButton, progressTracker, stored, ok, t))

\* the page is loaded again: new PageManager(), lines 106-117 and 403; an
\* exception of the constructor ends the script
Reload ==
    LET r == loadProgress(stored)
    IN  /\ app' = IF r.error = "none" THEN "running" ELSE "crashed"
        /\ progressTracker' = r.pt
        /\ currentPage' = "landing"
        /\ pageHistory' = << >>
        /\ backButton' = "initial"
        /\ wishesPage' = FreshWishes
        /\ last' = [NoCall EXCEPT !.error = r.error,
                                  !.ret = IF r.error = "none" THEN "undefined" ELSE "none",
                                  !.arg = stored.kind]
        /\ calls' = IF calls.on THEN [on |-> TRUE, seq |-> << >>] ELSE calls
        /\ UNCHANGED stored

\* something other than this script leaves a text under the key that
\* JSON.parse rejects
CorruptStorage ==
    /\ stored.kind # "unparsable"
    /\ stored' = StoredUnparsable
    /\ UNCHANGED <<app, progressTracker, currentPage, pageHistory, backButton, wishesPage,
                   last, calls>>

-----------------------------------------------------------------------------
(* Specifications.  Each one drives the same actions with its own inputs.   *)

\* transitionType values passed by the page besides goBack's 'slideBack'
TransitionKinds == {"slide", "fade"}

\* Spec: a session of tracker calls and of reloads in which every write to
\* localStorage succeeds
VisitIds == {"gallery", "secret"}
InteractionPages == {"gallery"}
InteractionIds == {"photo-1", "photo-2"}
CollectiblePages == {"wishes"}
CollectibleIds == {"gem-1"}
SecretIds == {"secret-memory"}
UnlockIds == {"candle-blower"}

Next ==
    \/ \E pageId \in VisitIds, t \in Times : MarkPageVisited(pageId, TRUE, t)
    \/ \E pageId \in InteractionPages, id \in InteractionIds, t \in Times :
            MarkInteractionComplete(pageId, id, TRUE, t)
    \/ \E id \in SecretIds, t \in Times : UnlockSecret(id, TRUE, t)
    \/ \E pageId \in CollectiblePages, id \in CollectibleIds, t \in Times :
            AddCollectible(pageId, id, TRUE, t)
    \/ \E id \in UnlockIds, t \in Times : UnlockAchievement(id, TRUE, t)
    \/ Reload

Spec == Init /\ [][Next]_vars

\* NavSpec: navigation from a freshly loaded page, with the recorder on
NavTargets == {"menu", "gallery", "wishes", "secret"}

NextNav ==
    \/ \E pageId \in NavTargets, kind \in TransitionKinds :
            NavigateTo(pageId, kind, TRUE, TRUE, MaxTime)
    \/ GoBack(TRUE, TRUE, MaxTime)

NavSpec == InitRecording /\ [][NextNav]_vars

\* FaultSpec: every call of the page when localStorage.setItem may refuse a
\* write and the text under the key may not parse
FaultVisitIds == {"gallery"}
FaultInteractionIds == {"photo-1"}
FaultTargets == {"gallery"}

NextFault ==
    \/ \E pageId \in FaultVisitIds, ok \in BOOLEAN : MarkPageVisited(pageId, ok, MaxTime)
    \/ \E pageId \in InteractionPages, id \in FaultInteractionIds, ok \in BOOLEAN :
            MarkInteractionComplete(pageId, id, ok, MaxTime)
    \/ \E id \in SecretIds, ok \in BOOLEAN : UnlockSecret(id, ok, MaxTime)
    \/ \E pageId \in CollectiblePages, id \in CollectibleIds, ok \in BOOLEAN :
            AddCollectible(pageId, id, ok, MaxTime)
    \/ \E id \in UnlockIds, ok \in BOOLEAN : UnlockAchievement(id, ok, MaxTime)
    \/ \E pageId \in FaultTargets, okVisit \in BOOLEAN, okAch \in BOOLEAN :
            NavigateTo(pageId, "slide", okVisit, okAch, MaxTime)
    \/ \E okVisit \in BOOLEAN, okAch \in BOOLEAN : GoBack(okVisit, okAch, MaxTime)
    \/ Reload
    \/ CorruptStorage

FaultSpec == Init /\ [][NextFault]_vars

\* PercentSpec: visits of the registered pages, reloads and reads of the
\* completion percentage
NextPercent ==
    \/ \E pageId \in Pages : MarkPageVisited(pageId, TRUE, MaxTime)
    \/ GetCompletionPercentage
    \/ Reload

PercentSpec == Init /\ [][NextPercent]_vars

\* CompletedSpec: interactions of five sections, reloads and reads of
\* isPageCompleted
CompletedInputs ==
    ({"gallery", "reasons"} \X {"i1", "i2", "i3"})
        \cup ({"wishes", "games", "secret"} \X {"i1"})

CompletedQueries == {"gallery", "reasons", "wishes", "games", "secret", "menu"}

NextCompleted ==
    \/ \E in \in CompletedInputs : MarkInteractionComplete(in[1], in[2], TRUE, MaxTime)
    \/ \E pageId \in CompletedQueries : IsPageCompleted(pageId)
    \/ Reload

CompletedSpec == Init /\ [][NextCompleted]_vars

\* DerivedSpec: derived-achievement passes on a page loaded from a snapshot
\* that holds any of the four ids of the rule, with writes that may be refused
DerivedIds == {"heart-collector", "memory-keeper", "star-collector", "collector"}

InitDerived == \E ids \in SUBSET DerivedIds : InitLoaded(ids)

NextDerived ==
    \/ \E ok \in BOOLEAN, t \in Times : EnsureDerivedAchievements(ok, t)
    \/ \E ok \in BOOLEAN, t \in Times : UnlockAchievement("memory-keeper", ok, t)
    \/ Reload

DerivedSpec == InitDerived /\ [][NextDerived]_vars

\* SessionSpec: a session of navigateTo, goBack and reloads from empty
\* progress in which every write succeeds.  The targets are the menu and the
\* four sections of its cards; landing is the page a load shows and goBack()
\* returns to.
SessionTargets == Pages \ {"landing"}

NextSession ==
    \/ \E pageId \in SessionTargets : NavigateTo(pageId, "slide", TRUE, TRUE, MaxTime)
    \/ GoBack(TRUE, TRUE, MaxTime)
    \/ Reload

SessionSpec == Init /\ [][NextSession]_vars

\* KonamiSpec: a session in which the script also navigates to the two ids it
\* does not register, 'secret' after the Konami code (line 466) and
\* 'achievements' (line 2204), with writes that succeed
KonamiTargets == NavTargets \cup {"achievements"}

NextKonami ==
    \/ \E pageId \in KonamiTargets : NavigateTo(pageId, "slide", TRUE, TRUE, MaxTime)
    \/ GoBack(TRUE, TRUE, MaxTime)
    \/ Konami(TRUE, MaxTime)
    \/ Reload

KonamiSpec == Init /\ [][NextKonami]_vars

\* AppSpec: the calls the application's own event handlers make on the page
\* manager and its tracker, from empty progress, with writes that succeed.  A
\* handler of the script is a sequence of these calls under conditions on the
\* document and on script counters; here each call is enabled at any time, so
\* every sequence of events of the application is a behaviour of AppSpec.

\* the literal ids of the unlockAchievement call sites and, in addition, one
\* id no call site passes
AppUnlockIdsWithHearts ==
    {"word-finder", "memory-keeper", "game-master", "candle-blower", "wish-master",
     "password-cracker", "heart-drawer", "layer-1-complete", "layer-2-complete",
     "layer-3-complete", "surprise-master", "heart-collector"}

\* the literal ids of the unlockAchievement call sites outside the page
\* manager and the Konami listener: lines 1166, 1242, 1466, 1719, 1814, 2264,
\* 2337, 2472, 2477, 2482 and 2487
AppUnlockIds ==
    {"word-finder", "memory-keeper", "game-master", "candle-blower", "wish-master",
     "password-cracker", "heart-drawer", "layer-1-complete", "layer-2-complete",
     "layer-3-complete", "surprise-master"}

AppTargets == {"gallery"}

NextApp ==
    \/ \E pageId \in AppTargets : NavigateTo(pageId, "slide", TRUE, TRUE, MaxTime)
    \/ GoBack(TRUE, TRUE, MaxTime)
    \/ Konami(TRUE, MaxTime)
    \/ \E id \in AppUnlockIds :
            /\ Cardinality(AchKeys(progressTracker.achievements)) < MaxUnlocked
            /\ UnlockAchievement(id, TRUE, MaxTime)
    \/ MarkInteractionComplete("games", "completed-guess", TRUE, MaxTime)
    \/ EnsureDerivedAchievements(TRUE, MaxTime)
    \/ Reload

AppSpec == Init /\ [][NextApp]_vars

\* CandleSpec: visits of the wishes section from empty progress, clicks on
\* its candles, its two timers and reloads, with writes that succeed
CandleTargets == {"wishes"}

NextCandle ==
    \/ \E pageId \in CandleTargets : NavigateTo(pageId, "slide", TRUE, TRUE, MaxTime)
    \/ GoBack(TRUE, TRUE, MaxTime)
    \/ \E n \in Candles : BlowCandle(n, TRUE, MaxTime)
    \/ ResetCounters
    \/ CandleBlowerTimeout(TRUE, MaxTime)
    \/ Reload

CandleSpec == Init /\ [][NextCandle]_vars

-----------------------------------------------------------------------------
(* Properties *)

Members(entry) == IF entry.kind = "Set" THEN entry.members ELSE {}

\* the same members in each container and the same achievement records
Equivalent(a, b) ==
    /\ a.visitedPages = b.visitedPages
    /\ a.unlockedSecrets = b.unlockedSecrets
    /\ \A s \in SectionIds :
            /\ Members(a.completedInteractions[s]) = Members(b.completedInteractions[s])
            /\ Members(a.collectibles[s]) = Members(b.collectibles[s])
    /\ a.achievements = b.achievements

\* a non-empty value in every container
AllNonEmpty(pt) ==
    /\ pt.visitedPages # {}
    /\ pt.unlockedSecrets # {}
    /\ AchKeys(pt.achievements) # {}
    /\ \E s \in SectionIds : Members(pt.completedInteractions[s]) # {}
    /\ \E s \in SectionIds : Members(pt.collectibles[s]) # {}

\* every member of a container of a is a member of the same container of b
Keeps(a, b) ==
    /\ a.visitedPages \subseteq b.visitedPages
    /\ a.unlockedSecrets \subseteq b.unlockedSecrets
    /\ AchKeys(a.achievements) \subseteq AchKeys(b.achievements)
    /\ \A s \in SectionIds :
            /\ Members(a.completedInteractions[s]) \subseteq Members(b.completedInteractions[s])
            /\ Members(a.collectibles[s]) \subseteq Members(b.collectibles[s])

Call(op, arg) == <<op, arg>>

\* C1: from a fresh page, after navigateTo(gallery) and navigateTo(wishes) the
\* first goBack() makes gallery current, the second makes landing current, and
\* the third changes neither the current page nor the history.
C1_BackTwiceReachesLanding ==
    LET nav == <<Call("navigateTo", "gallery"), Call("navigateTo", "wishes")>>
        back == Call("goBack", "")
    IN  calls.on =>
            /\ calls.seq = nav \o <<back>> => currentPage = "gallery"
            /\ calls.seq = nav \o <<back, back>> =>
                    currentPage = "landing" /\ pageHistory = << >>
            /\ calls.seq = nav \o <<back, back, back>> =>
                    currentPage = "landing" /\ pageHistory = << >>

\* C2: a tracker with a non-empty value in every container, saved and loaded
\* into a fresh tracker, has the same members in each container and the same
\* achievement records.
C2_SaveLoadRoundTrip ==
    AllNonEmpty(progressTracker) =>
        Equivalent(loadProgress(saveProgress(progressTracker, stored, TRUE, MaxTime)).pt,
                   progressTracker)

\* C3: a reload loses no member of any of the five containers.
C3_ReloadKeepsMembers ==
    [][Reload => Keeps(progressTracker, progressTracker')]_vars

\* C4: constructing the tracker when nothing is stored or the stored text does
\* not parse raises no error and yields five empty containers.
C4_LoadFailsOpen ==
    (last.op = "constructor" /\ last.arg \in {"absent", "unparsable"}) =>
        /\ last.error = "none"
        /\ app = "running"
        /\ progressTracker = EmptyProgress

\* C5: when setItem refuses the write of a state-changing call, no error
\* reaches the caller, the call runs its remaining steps and the tracker holds
\* the change.
C5_SaveErrorsSwallowed ==
    last.refused =>
        /\ last.error = "none"
        /\ last.op = "markPageVisited" => last.arg \in progressTracker.visitedPages
        /\ last.op = "markInteractionComplete" =>
                last.arg2 \in Members(progressTracker.completedInteractions[last.arg])
        /\ last.op = "unlockSecret" => last.arg \in progressTracker.unlockedSecrets
        /\ last.op = "addCollectible" =>
                last.arg2 \in Members(progressTracker.collectibles[last.arg])
        /\ last.op = "unlockAchievement" =>
                AchHas(progressTracker.achievements, last.arg) /\ last.notified = {last.arg}
        /\ last.op \in {"navigateTo", "goBack"} =>
                /\ currentPage \in progressTracker.visitedPages
                /\ backButton = updateBackButton(currentPage, pageHistory)
                /\ currentPage \in validPages =>
                        AchHas(progressTracker.achievements, FirstVisitId(currentPage))

\* C6: markInteractionComplete(s, i) and addCollectible(s, c) on a tracker that
\* was loaded from a snapshot holding an entry for s end without an error and
\* return true or false.
C6_CallsAfterReloadReturn ==
    last.op \in {"markInteractionComplete", "addCollectible"} =>
        last.error = "none" /\ last.ret \in {"true", "false"}

\* number of positions of the array arr that satisfy Same
Occurrences(arr, Same(_)) == Cardinality({i \in DOMAIN arr : Same(arr[i])})

\* C7: markPageVisited(x) on a tracker that has not visited x returns true, the
\* call that follows it returns false, and the visited pages, listed as an
\* array, then hold x once.
C7_VisitTwiceTrueThenFalse ==
    [][\A x \in VisitIds :
        (\E t \in Times : MarkPageVisited(x, TRUE, t)) =>
            /\ x \notin progressTracker.visitedPages => last'.ret = "true"
            /\ (last.op = "markPageVisited" /\ last.arg = x /\ last.ret = "true") =>
                    last'.ret = "false"
            /\ LET IsX(y) == y = x
               IN Occurrences(ArrayFrom(progressTracker'.visitedPages), IsX) = 1]_vars

\* C7 witness: a second markPageVisited('secret') has returned false
C7_Witness ==
    /\ last.op = "markPageVisited"
    /\ last.arg = "secret"
    /\ last.ret = "false"
    /\ "secret" \in progressTracker.visitedPages

\* C7, for every outcome of the storage write: markPageVisited(x) on a tracker
\* that has not visited x returns true, the call that follows it returns
\* false, and the visited pages then hold x once.
C7_IdempotentVisit ==
    [][\A x \in FaultVisitIds, ok \in BOOLEAN :
        (last'.arg = x /\ MarkPageVisited(x, ok, MaxTime)) =>
            /\ x \notin progressTracker.visitedPages => last'.ret = "true"
            /\ (last.op = "markPageVisited" /\ last.arg = x /\ last.ret = "true") =>
                    last'.ret = "false"
            /\ LET IsX(y) == y = x
               IN Occurrences(ArrayFrom(progressTracker'.visitedPages), IsX) = 1]_vars

Size(entry) == Cardinality(Members(entry))

\* no container of b is smaller than the same container of a
NotSmaller(a, b) ==
    /\ Cardinality(a.visitedPages) <= Cardinality(b.visitedPages)
    /\ Cardinality(a.unlockedSecrets) <= Cardinality(b.unlockedSecrets)
    /\ Cardinality(AchKeys(a.achievements)) <= Cardinality(AchKeys(b.achievements))
    /\ \A s \in SectionIds :
            /\ Size(a.completedInteractions[s]) <= Size(b.completedInteractions[s])
            /\ Size(a.collectibles[s]) <= Size(b.collectibles[s])

\* C8: within a session (every step but a reload) the number of visited pages,
\* of interactions of each section, of secrets, of achievements and of
\* collectibles of each section never decreases.
C8_SizesNeverDecrease ==
    [][~Reload => NotSmaller(progressTracker, progressTracker')]_vars

\* C8 witness: goBack has just enlarged the visited pages to two in a tracker
\* whose other containers are not empty
C8_Witness ==
    /\ last.op = "goBack"
    /\ last.saves = 1
    /\ Cardinality(progressTracker.visitedPages) = 2
    /\ AllNonEmpty(progressTracker)

C11_InvalidNavigationRejected ==
    [][\A pageId \in SectionIds \ Pages, kind \in TransitionKinds :
        NavigateTo(pageId, kind, TRUE, TRUE, MaxTime) =>
            /\ last'.logged
            /\ last'.transition = NoTransition
            /\ UNCHANGED <<currentPage, pageHistory>>
            /\ progressTracker'.visitedPages = progressTracker.visitedPages
            /\ progressTracker'.achievements = progressTracker.achievements]_vars

\* C11 witness: navigateTo('secret') was refused on the wishes page, with a
\* history and an achievement to keep
C11_Witness ==
    /\ last.op = "navigateTo"
    /\ last.arg = "secret"
    /\ last.logged
    /\ currentPage = "wishes"
    /\ pageHistory # << >>
    /\ AchKeys(progressTracker.achievements) # {}

\* the step is the call navigateTo(s, kind) in which setItem accepts the write
\* of the visit iff okVisit and that of the achievement iff okAch (the
\* conjuncts on last' follow from NavigateTo and are tested first)
NavigateToStep(s, kind, okVisit, okAch) ==
    /\ last'.arg = s
    /\ last'.arg2 = kind
    /\ NavigateTo(s, kind, okVisit, okAch, MaxTime)

\* the step is the call goBack()
GoBackStep(okVisit, okAch) ==
    /\ last'.op = "goBack"
    /\ GoBack(okVisit, okAch, MaxTime)

\* C12: navigateTo(s) for a registered page s appends the old current page to
\* the history iff s differs from it, makes s the current page and leaves s
\* among the visited pages.
C12_ValidNavigationStep ==
    [][\A s \in Pages, kind \in TransitionKinds, okVisit \in BOOLEAN, okAch \in BOOLEAN :
        NavigateToStep(s, kind, okVisit, okAch) =>
            /\ pageHistory' = (IF s # currentPage THEN Append(pageHistory, currentPage)
                               ELSE pageHistory)
            /\ currentPage' = s
            /\ s \in progressTracker'.visitedPages]_vars

\* C12 witness: navigateTo(wishes) on the wishes page has left the history alone
C12_Witness ==
    /\ last.op = "navigateTo"
    /\ last.arg = "wishes"
    /\ last.transition.from = "wishes"
    /\ currentPage = "wishes"
    /\ pageHistory = <<"landing", "gallery">>
    /\ "wishes" \in progressTracker.visitedPages

\* achievement ids that b holds and a does not
Added(a, b) == AchKeys(b.achievements) \ AchKeys(a.achievements)

\* the step adds first-visit-<s> when s was not visited and is neither landing
\* nor menu, and adds no achievement otherwise
FirstVisitRule(s) ==
    Added(progressTracker, progressTracker') =
        (IF s \notin progressTracker.visitedPages /\ s \notin {"landing", "menu"}
         THEN {FirstVisitId(s)} ELSE {})

\* C13: a navigation to a registered page s (navigateTo(s), or goBack() to s)
\* adds the achievement first-visit-<s> iff s was not visited before the call
\* and s is neither landing nor menu, and adds no other achievement.
C13_FirstVisitRule ==
    [][\A okVisit \in BOOLEAN, okAch \in BOOLEAN :
        /\ \A s \in Pages, kind \in TransitionKinds :
                NavigateToStep(s, kind, okVisit, okAch) => FirstVisitRule(s)
        /\ (GoBackStep(okVisit, okAch) /\ pageHistory # << >>) =>
                FirstVisitRule(pageHistory[Len(pageHistory)])]_vars

\* C14: goBack() with an empty history changes neither the current page, nor
\* the history, nor the back button, nor any container of the tracker, and
\* writes nothing to localStorage.
C14_GoBackEmptyHistoryNoOp ==
    [][\A okVisit \in BOOLEAN, okAch \in BOOLEAN :
        (GoBackStep(okVisit, okAch) /\ pageHistory = << >>) =>
            /\ UNCHANGED <<currentPage, pageHistory, backButton, progressTracker, stored>>
            /\ last'.saves = 0
            /\ last'.transition = NoTransition]_vars

\* C14 witness: goBack() was called with an empty history on a tracker with a
\* non-empty value in every container and a saved snapshot
C14_Witness ==
    /\ last.op = "goBack"
    /\ last.transition = NoTransition
    /\ pageHistory = << >>
    /\ AllNonEmpty(progressTracker)
    /\ stored.kind = "json"

\* C15: goBack() with a non-empty history whose most recent entry is t makes t
\* the current page and runs the transition to t with the kind slideBack.
C15_GoBackTarget ==
    [][\A okVisit \in BOOLEAN, okAch \in BOOLEAN :
        (GoBackStep(okVisit, okAch) /\ pageHistory # << >>) =>
            LET target == pageHistory[Len(pageHistory)]
            IN  /\ currentPage' = target
                /\ last'.transition.to = target
                /\ last'.transition.kind = "slideBack"]_vars

\* C15 witness: goBack() from gallery has made landing current although the
\* write of the visit of landing was refused
C15_Witness ==
    /\ last.op = "goBack"
    /\ last.refused
    /\ last.transition.from = "gallery"
    /\ currentPage = "landing"

\* the stored item is a snapshot from which the members of every container and
\* the achievement records of pt can be read back
Reflects(st, pt) == st.kind = "json" /\ Equivalent(loadProgress(st).pt, pt)

\* C16: a call of markPageVisited, markInteractionComplete, unlockSecret,
\* addCollectible or unlockAchievement that changes the tracker writes one
\* snapshot, and the stored snapshot then reflects the tracker; a call that
\* changes nothing writes nothing.
C16_ChangeIsPersisted ==
    [][~Reload =>
        /\ progressTracker' # progressTracker =>
                /\ last'.saves = 1
                /\ Reflects(stored', progressTracker')
        /\ progressTracker' = progressTracker =>
                /\ last'.saves = 0
                /\ stored' = stored]_vars

\* the visited pages listed in the stored snapshot
PersistedVisits(st) == IF st.kind = "json" THEN NewSet(st.doc.visitedPages) ELSE {}

\* a navigation to a page s that was not visited: s is visited afterwards; when
\* the first-visit achievement was added or shown, and when the call returned,
\* the stored snapshot lists s
VisitPersistedFirst(s) ==
    s \notin progressTracker.visitedPages =>
        /\ s \in progressTracker'.visitedPages
        /\ (Added(progressTracker, progressTracker') # {} \/ last'.notified # {}) =>
                s \in PersistedVisits(stored')
        /\ last'.error = "none" => s \in PersistedVisits(stored')

\* C17: in a navigation to a page s that was not visited (navigateTo(s), or
\* goBack() to s), s is added to the visited pages and written to localStorage
\* before the first-visit achievement is unlocked, and when the call returns
\* the stored snapshot lists s among the visited pages.
C17_VisitPersistedFirst ==
    [][\A okVisit \in BOOLEAN, okAch \in BOOLEAN :
        /\ \A s \in Pages, kind \in TransitionKinds :
                NavigateToStep(s, kind, okVisit, okAch) => VisitPersistedFirst(s)
        /\ (GoBackStep(okVisit, okAch) /\ pageHistory # << >>) =>
                VisitPersistedFirst(pageHistory[Len(pageHistory)])]_vars

\* C17 witness: the first navigateTo('gallery') ended with the write of the
\* achievement refused; the stored snapshot lists gallery and no achievement
C17_Witness ==
    /\ last.op = "navigateTo"
    /\ last.arg = "gallery"
    /\ last.error = "QuotaExceededError"
    /\ AchHas(progressTracker.achievements, "first-visit-gallery")
    /\ "gallery" \in PersistedVisits(stored)
    /\ stored.doc.achievements = << >>

\* C18: getCompletionPercentage() on visited pages V returns
\* round(100 * |V \cap {gallery, reasons, wishes, games}| / 4), a number of
\* 0..100, and changes no state; {gallery, wishes} gives 50, the four pages
\* give 100, {landing, menu} gives 0.
C18_CompletionPercentage ==
    [][GetCompletionPercentage =>
        LET V == progressTracker.visitedPages
            n == Cardinality(V \cap {"gallery", "reasons", "wishes", "games"})
            p == last'.value
        IN  /\ last'.ret = "number"
            /\ 4 * p = 100 * n
            /\ p \in 0..100
            /\ V = {"gallery", "wishes"} => p = 50
            /\ V = {"gallery", "reasons", "wishes", "games"} => p = 100
            /\ V = {"landing", "menu"} => p = 0
            /\ UNCHANGED <<progressTracker, stored, currentPage, pageHistory, backButton>>]_vars

\* C18 witness: getCompletionPercentage() returned 50 with landing, menu,
\* gallery and wishes visited
C18_Witness ==
    /\ last.op = "getCompletionPercentage"
    /\ last.value = 50
    /\ progressTracker.visitedPages = {"landing", "menu", "gallery", "wishes"}

\* number of distinct interactions the tracker holds for section s
Recorded(pt, s) == Cardinality(Members(pt.completedInteractions[s]))

\* the step records again an interaction of s that the tracker holds
RecordsAgain(s, i) ==
    /\ i \in Members(progressTracker.completedInteractions[s])
    /\ MarkInteractionComplete(s, i, TRUE, MaxTime)

\* C19 as stated: isPageCompleted(s) is true when the number of distinct
\* interactions recorded for s is at least the threshold of s (gallery 2,
\* reasons 3, any other section 1) and false otherwise, in particular for a
\* section without interactions.
C19_CompletedIffThreshold ==
    \A s \in CompletedQueries :
        (last.op = "isPageCompleted" /\ last.arg = s) =>
            LET threshold == IF s = "gallery" THEN 2 ELSE IF s = "reasons" THEN 3 ELSE 1
            IN  last.ret = (IF Recorded(progressTracker, s) >= threshold
                            THEN "true" ELSE "false")

\* C19 amended: isPageCompleted(s) returns true iff the number of distinct
\* interactions recorded for s is at least the threshold of s; below the
\* threshold it returns false when the tracker has an entry for s and
\* undefined, which is falsy but is not false, when it has none; recording an
\* interaction again changes neither the tracker nor the result.
C19_CompletedTruthyIffThreshold ==
    [][/\ \A s \in CompletedQueries :
            IsPageCompleted(s) =>
                LET threshold == IF s = "gallery" THEN 2 ELSE IF s = "reasons" THEN 3 ELSE 1
                IN  last'.ret =
                        (IF Recorded(progressTracker, s) >= threshold THEN "true"
                         ELSE IF MapHas(progressTracker.completedInteractions, s) THEN "false"
                         ELSE "undefined")
       /\ \A in \in CompletedInputs :
            RecordsAgain(in[1], in[2]) =>
                /\ progressTracker' = progressTracker
                /\ isPageCompleted(progressTracker', in[1]) =
                        isPageCompleted(progressTracker, in[1])]_vars

\* C19 witness: isPageCompleted('reasons') returned true with three
\* interactions recorded for reasons and one, below its threshold, for gallery
C19_Witness ==
    /\ last.op = "isPageCompleted"
    /\ last.arg = "reasons"
    /\ last.ret = "true"
    /\ Recorded(progressTracker, "reasons") = 3
    /\ Recorded(progressTracker, "gallery") = 1

\* C20: once the achievements hold an id, no step changes or removes its
\* record (id, title, description, icon, unlockedAt), and unlockAchievement
\* with that id writes nothing to localStorage and shows no notification.
C20_AchievementsWriteOnce ==
    [][\A id \in AchievementIds :
        AchHas(progressTracker.achievements, id) =>
            /\ progressTracker'.achievements[id] = progressTracker.achievements[id]
            /\ (\E ok \in BOOLEAN, t \in Times : UnlockAchievement(id, ok, t)) =>
                    /\ last'.saves = 0
                    /\ last'.notified = {}
                    /\ stored' = stored]_vars

\* C20 witness: unlockAchievement('candle-blower') was called again after a
\* later write at time 2, and the record still carries the time 1 of its unlock
C20_Witness ==
    /\ last.op = "unlockAchievement"
    /\ last.arg = "candle-blower"
    /\ last.saves = 0
    /\ progressTracker.achievements["candle-blower"].unlockedAt = 1
    /\ stored.kind = "json"
    /\ stored.doc.lastVisit = 2

\* C21: unlockAchievement(id) for an id without an entry in the table of
\* getAchievementData inserts a record under id with the generic title
\* 'Achievement Unlocked', the stored snapshot then holds the record, and no
\* error reaches the caller.
C21_UnknownIdUnlocks ==
    [][\A id \in UnlockIds, ok \in BOOLEAN :
        (/\ last'.arg = id
         /\ ~AchHas(progressTracker.achievements, id)
         /\ UnlockAchievement(id, ok, MaxTime)) =>
            /\ AchHas(progressTracker'.achievements, id)
            /\ progressTracker'.achievements[id].title = "Achievement Unlocked"
            /\ stored'.kind = "json"
            /\ \E i \in DOMAIN stored'.doc.achievements : stored'.doc.achievements[i].id = id
            /\ last'.error = "none"]_vars

\* C22: after every navigateTo and goBack the back button is displayed iff the
\* history is not empty and the current page is not landing.  The display the
\* markup gives the button before the script first sets it is not judged.
C22_BackShownIffHistory ==
    [][\A okVisit \in BOOLEAN, okAch \in BOOLEAN :
        (\/ \E s \in SectionIds, kind \in TransitionKinds :
                NavigateToStep(s, kind, okVisit, okAch)
         \/ GoBackStep(okVisit, okAch)) =>
            (backButton' # "initial" =>
                ((backButton' = "flex") <=>
                    (pageHistory' # << >> /\ currentPage' # "landing")))]_vars

\* C23: ensureDerivedAchievements adds 'collector', and nothing else, when
\* 'collector' is absent and 'heart-collector', 'memory-keeper' and
\* 'star-collector' are all present; in every other case it leaves the
\* achievements as they were.
C23_CollectorRule ==
    [][\A ok \in BOOLEAN, t \in Times :
        (last'.op = "ensureDerivedAchievements" /\ EnsureDerivedAchievements(ok, t)) =>
            LET ach == progressTracker.achievements
                due == /\ ~AchHas(ach, "collector")
                       /\ {"heart-collector", "memory-keeper", "star-collector"} \subseteq AchKeys(ach)
            IN  /\ due => /\ Added(progressTracker, progressTracker') = {"collector"}
                          /\ \A id \in AchKeys(ach) : progressTracker'.achievements[id] = ach[id]
                /\ ~due => progressTracker'.achievements = ach]_vars

\* C23 witness: a pass has added 'collector' to the three prerequisites
C23_Witness ==
    /\ last.op = "ensureDerivedAchievements"
    /\ last.saves = 1
    /\ AchKeys(progressTracker.achievements) =
            {"heart-collector", "memory-keeper", "star-collector", "collector"}
    /\ progressTracker.achievements["collector"].unlockedAt = MaxTime

Containers ==
    {"visitedPages", "completedInteractions", "unlockedSecrets", "achievements", "collectibles"}

\* the step changes no container of the tracker but own, neither the current
\* page nor the history nor the back button, and shows, animates and logs
\* nothing
TrackerFrame(own) ==
    /\ \A c \in Containers \ {own} : progressTracker'[c] = progressTracker[c]
    /\ UNCHANGED <<currentPage, pageHistory, backButton>>
    /\ last'.notified = {}
    /\ last'.transition = NoTransition
    /\ ~last'.logged

\* C25: markPageVisited changes only visitedPages, markInteractionComplete only
\* completedInteractions, unlockSecret only unlockedSecrets and addCollectible
\* only collectibles (besides the stored snapshot); none of them changes the
\* current page, the history or the back button or has a presentation effect.
C25_TrackerFrame ==
    [][\A ok \in BOOLEAN, t \in Times :
        /\ (last'.op = "markPageVisited" /\ MarkPageVisited(last'.arg, ok, t)) =>
                TrackerFrame("visitedPages")
        /\ (last'.op = "markInteractionComplete"
                /\ MarkInteractionComplete(last'.arg, last'.arg2, ok, t)) =>
                TrackerFrame("completedInteractions")
        /\ (last'.op = "unlockSecret" /\ UnlockSecret(last'.arg, ok, t)) =>
                TrackerFrame("unlockedSecrets")
        /\ (last'.op = "addCollectible" /\ AddCollectible(last'.arg, last'.arg2, ok, t)) =>
                TrackerFrame("collectibles")]_vars

\* C25 witness: addCollectible has added a collectible on the gallery page,
\* with a history and a non-empty value in every container
C25_Witness ==
    /\ last.op = "addCollectible"
    /\ last.ret = "true"
    /\ currentPage = "gallery"
    /\ pageHistory # << >>
    /\ backButton = "flex"
    /\ AllNonEmpty(progressTracker)

\* C27: in every state reached by navigateTo and goBack, a non-empty history
\* has a most recent entry that differs from the current page.
C27_HistoryTopDiffers ==
    pageHistory # << >> => pageHistory[Len(pageHistory)] # currentPage

\* C27 witness: two goBack() calls after navigateTo('gallery') and
\* navigateTo('wishes')
C27_Witness ==
    /\ last.op = "goBack"
    /\ currentPage = "wishes"
    /\ pageHistory = <<"landing", "gallery">>

\* C28: goBack() with a non-empty history leaves the length of the history
\* unchanged: it replaces the most recent entry by the page just left and makes
\* that entry current, so that two goBack() calls in a row restore the current
\* page and the history; no navigateTo or goBack empties a non-empty history.
C28_GoBackKeepsLength ==
    [][/\ \A okVisit \in BOOLEAN, okAch \in BOOLEAN :
            (GoBackStep(okVisit, okAch) /\ pageHistory # << >>) =>
                LET n == Len(pageHistory)
                IN  /\ Len(pageHistory') = n
                    /\ pageHistory' = [pageHistory EXCEPT ![n] = currentPage]
                    /\ currentPage' = pageHistory[n]
       /\ (pageHistory # << >> /\ ~Reload) => pageHistory' # << >>]_vars

\* C28 witness: three goBack() calls in a row after navigateTo('gallery') and
\* navigateTo('wishes') have alternated between gallery and wishes
C28_Witness ==
    /\ calls.on
    /\ calls.seq = <<Call("navigateTo", "gallery"), Call("navigateTo", "wishes"),
                     Call("goBack", ""), Call("goBack", ""), Call("goBack", "")>>
    /\ currentPage = "gallery"
    /\ pageHistory = <<"landing", "wishes">>


\* C29: the current section, every entry of the history and every visited
\* page are registered pages in every state of a session, and neither
\* navigateTo('secret'), navigateTo('achievements') nor the Konami code changes
\* the current section or the history.
UnregisteredTargets == {"secret", "achievements"}

ClosedSections ==
    /\ currentPage \in Pages
    /\ \A i \in DOMAIN pageHistory : pageHistory[i] \in Pages
    /\ progressTracker.visitedPages \subseteq Pages

FirstVisitsHeld(pt) == {s \in validPages : AchHas(pt.achievements, FirstVisitId(s))}

C30_VisitsAgreeWithAchievements ==
    app = "running" =>
        /\ \A s \in validPages :
                AchHas(progressTracker.achievements, FirstVisitId(s))
                    <=> s \in progressTracker.visitedPages
        /\ getCompletionPercentage(progressTracker)
                = 25 * Cardinality(FirstVisitsHeld(progressTracker))

\* all four pages have been visited, over a reload, and goBack() has run
C30_Witness ==
    /\ last.op = "goBack"
    /\ Cardinality(FirstVisitsHeld(progressTracker)) = 4
    /\ getCompletionPercentage(progressTracker) = 100
    /\ stored.kind = "json"


\* C24: from empty progress, whatever the application's events, the
\* achievements never hold 'heart-collector' or 'star-collector', and so never
\* 'collector'.
C24_CollectorUnreachable ==
    \A id \in {"heart-collector", "star-collector", "collector"} :
        ~AchHas(progressTracker.achievements, id)

\* a derived-achievement pass has run while 'memory-keeper', the one
\* prerequisite a call site unlocks, was held
C24_Witness ==
    /\ last.op = "ensureDerivedAchievements"
    /\ last.saves = 0
    /\ AchHas(progressTracker.achievements, "memory-keeper")
    /\ AchHas(progressTracker.achievements, "first-visit-gallery")


\* C26: once all five candles are blown, 'candle-blower' is eventually
\* unlocked.  The achievement is unlocked by the timer blowCandle sets and by
\* nothing else, and a blown candle cannot be blown again, so the rule is
\* stated on the states where nothing is pending: when all five candles are
\* blown and no timer of the wishes section is pending, the achievement is
\* held.
AllCandlesBlown == wishesPage.blown = Candles

NoTimerPending == wishesPage.resetTimers = 0 /\ wishesPage.unlockTimers = 0

C26_AllBlownUnlocks ==
    (app = "running" /\ AllCandlesBlown /\ NoTimerPending) =>
        AchHas(progressTracker.achievements, "candle-blower")

====
